---- MODULE Spec2Model ----
(***************************************************************************)
(* runtype: the type poset (base_types.py, pytypes.py), its relation       *)
(* engine (the dispatched le / eq rules) and the multiple-dispatch engine  *)
(* (dispatch.py) that both serves user code and selects the relation       *)
(* engine's own rules.                                                     *)
(***************************************************************************)
EXTENDS Integers, Sequences, FiniteSets, TLC

(***************************************************************************)
(* Bounds of the model.                                                    *)
(***************************************************************************)
\* how many decorated functions the environment defines in one behaviour
MaxFuncs == 3
\* how many dispatched calls the environment makes in one behaviour
MaxCalls == 2
\* how deep the Type Nodes the environment compares are nested
MaxDepth == 2

(***************************************************************************)
(* Generic helpers.                                                        *)
(***************************************************************************)
Range(s) == {s[i] : i \in DOMAIN s}

RECURSIVE Flatten(_)
Flatten(ss) == IF ss = <<>> THEN <<>> ELSE Head(ss) \o Flatten(Tail(ss))

Reverse(s) == [i \in 1..Len(s) |-> s[Len(s) + 1 - i]]

IsPrefix(p, q) == Len(p) <= Len(q) /\ SubSeq(q, 1, Len(p)) = p

(***************************************************************************)
(* Python classes.  A class is its name; ClassBases gives the direct bases *)
(* of each class statement.  Classes of base_types.py keep their bare      *)
(* name, the classes of pytypes.py that shadow one carry the module name.  *)
(***************************************************************************)
HostBases ==
    ("object" :> {}) @@ ("type" :> {"object"}) @@
    ("int" :> {"object"}) @@ ("bool" :> {"int"}) @@ ("test_int" :> {"int"}) @@
    ("str" :> {"object"}) @@ ("float" :> {"object"}) @@
    ("list" :> {"object"}) @@ ("tuple" :> {"object"}) @@ ("dict" :> {"object"}) @@
    ("NoneType" :> {"object"})

BaseTypesBases ==
    ("Type" :> {"object"}) @@
    ("AnyType" :> {"Type"}) @@ ("AllType" :> {"Type"}) @@
    ("DataType" :> {"Type"}) @@ ("SumType" :> {"Type"}) @@
    ("ProductType" :> {"Type"}) @@ ("ContainerType" :> {"DataType"}) @@
    ("GenericType" :> {"ContainerType"}) @@
    ("PhantomType" :> {"Type"}) @@ ("PhantomGenericType" :> {"Type"}) @@
    ("Validator" :> {"object"}) @@ ("Constraint" :> {"Validator", "Type"})

PyTypesBases ==
    ("PythonType" :> {"Type", "Validator"}) @@
    ("pytypes.Constraint" :> {"Constraint"}) @@
    ("pytypes.AnyType" :> {"AnyType", "PythonType"}) @@
    ("pytypes.AllType" :> {"AllType", "PythonType"}) @@
    ("pytypes.ProductType" :> {"ProductType", "PythonType"}) @@
    ("pytypes.SumType" :> {"SumType", "PythonType"}) @@
    ("PythonDataType" :> {"DataType", "PythonType"}) @@
    ("TupleType" :> {"PythonType"}) @@
    ("OneOf" :> {"PythonType"}) @@
    ("pytypes.GenericType" :> {"GenericType", "PythonType"}) @@
    ("GenericContainerType" :> {"pytypes.GenericType"}) @@
    ("SequenceType" :> {"GenericContainerType"}) @@
    ("DictType" :> {"GenericContainerType"}) @@
    ("TupleEllipsisType" :> {"SequenceType"}) @@
    ("TypeType" :> {"pytypes.GenericType"}) @@
    ("CallableType" :> {"PythonDataType"}) @@
    ("_Bool" :> {"PythonDataType"}) @@
    ("_Number" :> {"PythonDataType"}) @@
    ("_Int" :> {"_Number"}) @@ ("_Float" :> {"_Number"}) @@
    ("_String" :> {"PythonDataType"}) @@
    ("_NoneType" :> {"OneOf"})

ClassBases == HostBases @@ BaseTypesBases @@ PyTypesBases

Classes == DOMAIN ClassBases

RECURSIVE Ancestors(_)
Ancestors(c) == {c} \cup UNION {Ancestors(b) : b \in ClassBases[c]}

\* the classes of each class's method resolution order
Mro == [c \in Classes |-> Ancestors(c)]

\* builtins.issubclass on two classes
PyIsSubclass(c1, c2) == c2 \in Mro[c1]

(***************************************************************************)
(* Type systems (typesystem.py, validation.py).  A type system is named by *)
(* its class; the Ts* operators are its methods.  PythonBasic works on     *)
(* Python classes, PythonTyping on annotations that it canonizes to Type   *)
(* Nodes on every test.  is_subtype and isa are defined with the relation  *)
(* engine further down.                                                    *)
(***************************************************************************)
RECURSIVE is_subtype(_, _)
RECURSIVE isa(_, _)

\* type(obj): every object of the model, Type Node or host value, is a tuple
\* headed by the name of its class
type(obj) == obj[1]

TypeSystems == {"PythonBasic", "PythonTyping"}

TsIssubclass(ts, t1, t2) ==
    IF ts = "PythonBasic" THEN PyIsSubclass(t1, t2) ELSE is_subtype(t1, t2)

TsIsinstance(ts, obj, t) ==
    IF ts = "PythonBasic" THEN PyIsSubclass(type(obj), t) ELSE isa(obj, t)

TsGetType(ts, obj) == type(obj)

\* TypeSystem.to_canonical_type: neither type system overrides it
\* (PythonTyping defines canonize_type, which nothing calls)
TsToCanonicalType(ts, t) == t

TsDefaultType(ts) == IF ts = "PythonBasic" THEN "object" ELSE <<"type", "object">>

\* PythonBasic.any_type is typing.Any; PythonTyping inherits NotImplemented
TsAnyType(ts) == IF ts = "PythonBasic" THEN "typing.Any" ELSE <<"NotImplemented">>

(***************************************************************************)
(* The dispatch engine (dispatch.py).                                      *)
(*                                                                         *)
(* A function object is [id, priority, params]: params is the sequence of  *)
(* its declared parameters (see Param); priority is                        *)
(* its __dispatch_priority__ attribute, 0 when it has none.                *)
(*                                                                         *)
(* A TypeTree is [order, leaf, cache].  Every TypeNode of the trie is      *)
(* named by its path, the sequence of the edge types that lead to it from  *)
(* the root <<>>; order lists the paths of the nodes other than the root   *)
(* in the order they were created, which is the iteration order of every   *)
(* follow_type dict; leaf maps the path of each node whose func is set to  *)
(* that func, the pair (f, signature).                                     *)
(***************************************************************************)
\* a declared parameter; annotated is FALSE when p.annotation is sig.empty
Param(annotation, has_default) ==
    [annotated |-> TRUE, annotation |-> annotation, has_default |-> has_default]

Unannotated(has_default) ==
    [annotated |-> FALSE, annotation |-> <<>>, has_default |-> has_default]

NewTree == [order |-> <<>>, leaf |-> <<>>, cache |-> <<>>]

get_func_signatures(ts, f) ==
    LET ps == f.params
        t(i) == IF ~ps[i].annotated
                THEN TsDefaultType(ts)
                ELSE TsToCanonicalType(ts, ps[i].annotation)
        typesig(n) == [i \in 1..n |-> t(i)]
        optional == SelectSeq([i \in 1..Len(ps) |-> i],
                              LAMBDA i : ps[i].has_default)
    IN  [k \in 1..Len(optional) |-> typesig(optional[k] - 1)]
        \o <<typesig(Len(ps))>>

\* the getattr(t, 'ALLOW_DISPATCH', True) of define_function: only an
\* instance of OneOf (other than NoneType) carries ALLOW_DISPATCH = False
AllowDispatch(t) == ~(Len(t) > 0 /\ t[1] = "OneOf")

\* node.follow_type[t] for each t of the signature: the nodes it creates
WalkCreate(order, signature) ==
    LET new == SelectSeq([n \in 1..Len(signature) |-> SubSeq(signature, 1, n)],
                         LAMBDA p : p \notin Range(order))
    IN  order \o new

\* the longest prefix of the signature walked before a type is refused
AllowedPrefix(ts, signature) ==
    LET bad == {n \in 1..Len(signature) :
                  ts # "PythonBasic" /\ ~AllowDispatch(signature[n])}
    IN  IF bad = {} THEN signature
        ELSE SubSeq(signature, 1, (CHOOSE n \in bad : \A m \in bad : n <= m) - 1)

\* a registration that replaces the implementation of a signature already
\* registered instead of refusing it
DefineOverwriting(tree, ts, f) ==
    LET sigs == get_func_signatures(ts, f)
        step[k \in 0..Len(sigs)] ==
            IF k = 0 THEN [tree |-> tree, error |-> "none"]
            ELSE LET prev == step[k - 1]
                     signature == sigs[k]
                     walked == AllowedPrefix(ts, signature)
                     t1 == [prev.tree EXCEPT
                              !.order = WalkCreate(@, walked)]
                 IN  IF prev.error # "none" THEN prev
                     ELSE IF walked # signature
                     THEN [tree |-> t1, error |-> "ValueError"]
                     ELSE [tree |-> [t1 EXCEPT !.leaf =
                                        (signature :> [f |-> f, sig |-> signature]) @@ @],
                           error |-> "none"]
    IN  step[Len(sigs)]

\* TypeTree.define_function: [tree, error]
define_function(tree, ts, f) ==
    LET sigs == get_func_signatures(ts, f)
        step[k \in 0..Len(sigs)] ==
            IF k = 0 THEN [tree |-> tree, error |-> "none"]
            ELSE LET prev == step[k - 1]
                     signature == sigs[k]
                     walked == AllowedPrefix(ts, signature)
                     t1 == [prev.tree EXCEPT
                              !.order = WalkCreate(@, walked)]
                 IN  IF prev.error # "none" THEN prev
                     ELSE IF walked # signature
                     THEN [tree |-> t1, error |-> "ValueError"]
                     ELSE IF signature \in DOMAIN t1.leaf
                     THEN [tree |-> t1, error |-> "ValueError"]
                     ELSE [tree |-> [t1 EXCEPT !.leaf =
                                        @ @@ (signature :> [f |-> f, sig |-> signature])],
                           error |-> "none"]
    IN  step[Len(sigs)]

\* the children of node p, in the iteration order of p.follow_type
Children(tree, p) ==
    SelectSeq(tree.order, LAMBDA q : Len(q) = Len(p) + 1 /\ IsPrefix(p, q))

\* a walk that follows only the edge of the argument's own class
FollowByIdentity(tree, ts, p, arg) ==
    SelectSeq(Children(tree, p),
              LAMBDA q : q[Len(q)] = <<"type", TsGetType(ts, arg)>>)

\* TypeNode.follow_arg (test_subtype is False: no dispatch group of the
\* repository sets test_subtypes)
follow_arg(tree, ts, p, arg) ==
    SelectSeq(Children(tree, p), LAMBDA q : TsIsinstance(ts, arg, q[Len(q)]))

all_eq(xs) == \A i \in 2..Len(xs) : ~(xs[1] # xs[i])

\* IsSubclass.__lt__ of choose_most_specific_function; a key is <<i, t>>
IsSubclassLt(ts, self, other) ==
    IF self[2] = TsAnyType(ts) THEN FALSE
    ELSE TsIssubclass(ts, self[2], other[2])

(***************************************************************************)
(* sorted(xs, key=IsSubclass) as CPython's list.sort runs it on a list     *)
(* shorter than 64: count_run finds the run the list starts with (a        *)
(* strictly descending one is reversed) and binarysort inserts the rest.   *)
(***************************************************************************)
RECURSIVE BinarySearch(_, _, _, _, _)
BinarySearch(ts, xs, pivot, l, r) ==
    IF l >= r THEN l
    ELSE LET p == l + ((r - l) \div 2)
         IN  IF IsSubclassLt(ts, pivot, xs[p + 1])
             THEN BinarySearch(ts, xs, pivot, l, p)
             ELSE BinarySearch(ts, xs, pivot, p + 1, r)

InsertAt(xs, l, x) == SubSeq(xs, 1, l) \o <<x>> \o SubSeq(xs, l + 1, Len(xs))

RECURSIVE BinarySort(_, _, _)
BinarySort(ts, sortedPrefix, rest) ==
    IF rest = <<>> THEN sortedPrefix
    ELSE BinarySort(ts,
                    InsertAt(sortedPrefix,
                             BinarySearch(ts, sortedPrefix, Head(rest), 0,
                                          Len(sortedPrefix)),
                             Head(rest)),
                    Tail(rest))

\* count_run, given lt[j], the outcome of xs[j + 1] < xs[j]
RunOf(lt) ==
    LET n == Len(lt) + 1
        goes(j) == lt[j] = lt[1]
    IN  [n |-> CHOOSE m \in 2..n :
                  /\ \A j \in 2..(m - 1) : goes(j)
                  /\ (m = n \/ ~goes(m)),
         descending |-> lt[1]]

CountRun(ts, xs) ==
    RunOf([j \in 1..(Len(xs) - 1) |-> IsSubclassLt(ts, xs[j + 1], xs[j])])

\* the run, reversed when it descends, and the rest inserted into it
SortRun(ts, xs, run) ==
    BinarySort(ts,
               IF run.descending THEN Reverse(SubSeq(xs, 1, run.n))
               ELSE SubSeq(xs, 1, run.n),
               SubSeq(xs, run.n + 1, Len(xs)))

SortedByIsSubclass(ts, xs) ==
    IF Len(xs) < 2 THEN xs ELSE SortRun(ts, xs, CountRun(ts, xs))

\* the loop over x[1:] that builds ms_set, x being the sorted column
MsSetOf(ts, x) ==
    LET ms_i == x[1][1]
        ms_t == x[1][2]
    IN  {ms_i} \cup
        {x[k][1] : k \in {j \in 2..Len(x) :
            \E t \in {x[j][2]} :
                \/ ms_t = t
                \/ (TsIssubclass(ts, t, ms_t) /\ t # TsAnyType(ts))
                \/ ~TsIssubclass(ts, ms_t, t)}}

\* the ms_set of one column of choose_most_specific_function
MostSpecificSet(ts, zipped_params) ==
    MsSetOf(ts, SortedByIsSubclass(ts,
                    [i \in 1..Len(zipped_params) |-> <<i, zipped_params[i]>>]))

\* most_specific_per_param: the ms_set of every column that is not all_eq
most_specific_per_param(ts, funcs) ==
    LET width == Len(funcs[1].sig)
        column(c) == [i \in 1..Len(funcs) |-> funcs[i].sig[c]]
        cols == SelectSeq([c \in 1..width |-> c], LAMBDA c : ~all_eq(column(c)))
    IN  [k \in 1..Len(cols) |-> MostSpecificSet(ts, column(cols[k]))]

\* what a call of the engine ends with: the function it returns, or the
\* exception it raises
NoFunc == [id |-> 0, priority |-> 0, params |-> <<>>]
Ok(f) == [status |-> "ok", func |-> f, reason |-> "resolved"]
Raise(status, reason) == [status |-> status, func |-> NoFunc, reason |-> reason]

\* a resolver that settles a tie of the highest priority for one of the
\* tied candidates instead of raising
ChooseAmongTied(funcs, per_param) ==
    LET most_specific == {i \in 1..Len(funcs) :
                            \A k \in 1..Len(per_param) : i \in per_param[k]}
        ambig == UNION Range(per_param)
        top == {i \in ambig :
                  \A j \in ambig \ {i} : funcs[i].f.priority >= funcs[j].f.priority}
    IN  IF per_param = <<>>
        THEN Raise("TypeError", "set.intersection of no sets")
        ELSE IF Cardinality(most_specific) = 1
        THEN Ok(funcs[CHOOSE i \in most_specific : TRUE].f)
        ELSE IF top # {}
        THEN Ok(funcs[CHOOSE i \in top : TRUE].f)
        ELSE Raise("DispatchError", "ambiguous")

\* choose_most_specific_function once most_specific_per_param is built
ChooseAmong(funcs, per_param) ==
    LET most_specific == {i \in 1..Len(funcs) :
                            \A k \in 1..Len(per_param) : i \in per_param[k]}
        ambig == UNION Range(per_param)
        top == {i \in ambig :
                  \A j \in ambig \ {i} : funcs[i].f.priority > funcs[j].f.priority}
    IN  IF per_param = <<>>
        THEN Raise("TypeError", "set.intersection of no sets")
        ELSE IF Cardinality(most_specific) = 1
        THEN Ok(funcs[CHOOSE i \in most_specific : TRUE].f)
        ELSE IF Cardinality(ambig) <= 1
        THEN Raise("AssertionError", "len(ambig_funcs) > 1")
        ELSE IF top # {}
        THEN Ok(funcs[CHOOSE i \in top : TRUE].f)
        ELSE Raise("DispatchError", "ambiguous")

\* TypeTree.choose_most_specific_function
choose_most_specific_function(ts, funcs) ==
    ChooseAmong(funcs, most_specific_per_param(ts, funcs))

\* the leaves find_function collects, in the order it collects them
MatchingFuncs(tree, ts, args) ==
    LET nodes[i \in 0..Len(args)] ==
            IF i = 0 THEN << <<>> >>
            ELSE Flatten([k \in 1..Len(nodes[i - 1]) |->
                            follow_arg(tree, ts, nodes[i - 1][k], args[i])])
        withFunc == SelectSeq(nodes[Len(args)], LAMBDA p : p \in DOMAIN tree.leaf)
    IN  [k \in 1..Len(withFunc) |-> tree.leaf[withFunc[k]]]

\* a find_function that hands a single leaf to the resolver too
FindAmongAll(ts, funcs) ==
    IF Len(funcs) = 0 THEN Raise("DispatchError", "not found")
    ELSE choose_most_specific_function(ts, funcs)

\* find_function once the leaves are collected
FindAmong(ts, funcs) ==
    IF Len(funcs) = 0 THEN Raise("DispatchError", "not found")
    ELSE IF Len(funcs) > 1 THEN choose_most_specific_function(ts, funcs)
    ELSE Ok(funcs[1].f)

\* TypeTree.find_function
find_function(tree, ts, args) == FindAmong(ts, MatchingFuncs(tree, ts, args))

\* the cache key of find_function_cached
CacheKey(ts, args) == [i \in 1..Len(args) |-> TsGetType(ts, args[i])]

\* a cache miss that stores what find_function gave also when it raised
CacheMissKeepsFailure(tree, sig, r) ==
    [tree |-> [tree EXCEPT !.cache = @ @@ (sig :> r.func)],
     result |-> r, hit |-> FALSE]

\* a cache miss that returns what find_function gave without storing it
CacheMissForgets(tree, sig, r) == [tree |-> tree, result |-> r, hit |-> FALSE]

\* the cache miss of find_function_cached: r is what find_function gave
CacheMiss(tree, sig, r) ==
    [tree |-> IF r.status = "ok"
              THEN [tree EXCEPT !.cache = @ @@ (sig :> r.func)]
              ELSE tree,
     result |-> r, hit |-> FALSE]

\* a lookup that resolves every call anew and stores what it resolved to,
\* replacing the entry of the call's kinds
FindFunctionRefreshing(tree, ts, args) ==
    LET sig == CacheKey(ts, args)
        r == find_function(tree, ts, args)
    IN  [tree |-> IF r.status = "ok"
                  THEN [tree EXCEPT !.cache = (sig :> r.func) @@ @]
                  ELSE tree,
         result |-> r, hit |-> sig \in DOMAIN tree.cache]

\* TypeTree.find_function_cached: [tree, result, hit]
find_function_cached(tree, ts, args) ==
    LET sig == CacheKey(ts, args)
    IN  IF sig \in DOMAIN tree.cache
        THEN [tree |-> tree, result |-> Ok(tree.cache[sig]), hit |-> TRUE]
        ELSE CacheMiss(tree, sig, find_function(tree, ts, args))

\* define_function for each function of fs in turn (a module's decorators,
\* run at import): the tree they leave, up to the first that raises
RECURSIVE DefineAll(_, _, _)
DefineAll(tree, ts, fs) ==
    IF fs = <<>> THEN tree
    ELSE LET r == define_function(tree, ts, Head(fs))
         IN  IF r.error # "none" THEN r.tree
             ELSE DefineAll(r.tree, ts, Tail(fs))

(***************************************************************************)
(* Type Nodes (base_types.py, pytypes.py).  A node is a tuple headed by    *)
(* its class:                                                              *)
(*   <<"pytypes.AnyType">>, <<"pytypes.AllType">>   pytypes.Any, All       *)
(*   <<"AnyType">>, <<"AllType">>                   base_types.Any, All    *)
(*   <<"DataType", id>>, <<"PhantomType", id>>      one object per id      *)
(*   <<"PythonDataType" | "_Int" | ..., kernel>>    kernel a host class    *)
(*   <<"SumType" | "pytypes.SumType", types>>       types a set of nodes   *)
(*   <<"ProductType" | "pytypes.ProductType", types>>   a sequence         *)
(*   <<"GenericType" | "SequenceType" | ..., base, item, variance>>        *)
(*   <<"PhantomGenericType", base, item, id>>       one object per id      *)
(*   <<"Constraint" | "pytypes.Constraint", type, accepted>>   accepted:  *)
(*                              the set of values its predicates accept    *)
(*   <<"TupleType">>                                pytypes.Tuple          *)
(*   <<"OneOf" | "_NoneType", values>>              values a sequence      *)
(*   <<"type", c>>                                  the host class c       *)
(* A host value is <<class, payload>>; the payload of a list or a tuple is *)
(* the sequence of its elements.  An annotation is a Type Node, a host     *)
(* class, or a form of the typing module: <<"typing.Any">>,                *)
(* <<"typing.List">>, <<"typing.List", item>>, <<"typing.Union", args>>    *)
(* with args a set of annotations.                                         *)
(***************************************************************************)
\* pytypes.Any and pytypes.Int (Any and Int name operators of the standard modules)
PyAny == <<"pytypes.AnyType">>
All == <<"pytypes.AllType">>
BaseAny == <<"AnyType">>
BaseAll == <<"AllType">>
Tuple == <<"TupleType">>
PyInt == <<"_Int", "int">>
Float == <<"_Float", "float">>
String == <<"_String", "str">>
Bool == <<"_Bool", "bool">>
NoneType == <<"_NoneType", << <<"NoneType", 0>> >> >>
PythonDataType(kernel) == <<"PythonDataType", kernel>>
Covariant == "Covariant"
Contravariant == "Contravariant"
Invariant == "Invariant"
List == <<"SequenceType", PythonDataType("list"), PyAny, Invariant>>

IsA(node, cls) == PyIsSubclass(type(node), cls)

\* the classes whose instances are Type Nodes, and type for a host class
NodeClasses == {c \in Classes : PyIsSubclass(c, "Type")} \cup {"type"}

(***************************************************************************)
(* The rules of the relation engine: the functions decorated with dp in    *)
(* base_types.py and then pytypes.py, in the order of their definition.    *)
(***************************************************************************)
Rule(id, self, other, priority) ==
    [id |-> id, priority |-> priority,
     params |-> <<Param(self, FALSE), Param(other, FALSE)>>]

RuleAny(id) ==
    [id |-> id, priority |-> 0,
     params |-> <<Unannotated(FALSE), Unannotated(FALSE)>>]

LeRules == <<
    RuleAny("le(self, other)"),
    Rule("le(Type, Type)", "Type", "Type", -1),
    Rule("le(Type, AllType)", "Type", "AllType", 100),
    Rule("le(type, AllType)", "type", "AllType", 0),
    Rule("le(Type, AnyType)", "Type", "AnyType", 2),
    Rule("le(type, AnyType)", "type", "AnyType", 0),
    Rule("le(AnyType, Type)", "AnyType", "Type", 1),
    Rule("le(SumType, Type)", "SumType", "Type", 51),
    Rule("le(Type, SumType)", "Type", "SumType", 50),
    Rule("le(ProductType, ProductType)", "ProductType", "ProductType", 0),
    Rule("le(GenericType, GenericType)", "GenericType", "GenericType", 0),
    Rule("le(GenericType, Type)", "GenericType", "Type", 0),
    Rule("le(Type, GenericType)", "Type", "GenericType", 0),
    Rule("le(Type, PhantomGenericType)", "Type", "PhantomGenericType", 1),
    Rule("le(PhantomGenericType, Type)", "PhantomGenericType", "Type", 0),
    Rule("le(PhantomGenericType, PhantomType)", "PhantomGenericType", "PhantomType", 0),
    Rule("le(Constraint, Constraint)", "Constraint", "Constraint", 0),
    Rule("le(Constraint, Type)", "Constraint", "Type", 1),
    Rule("le(PythonDataType, PythonDataType)", "PythonDataType", "PythonDataType", 0),
    Rule("le(CallableType, CallableType)", "CallableType", "CallableType", 0),
    Rule("le(TupleEllipsisType, TupleType)", "TupleEllipsisType", "TupleType", 0),
    Rule("le(ProductType, TupleType)", "pytypes.ProductType", "TupleType", 0),
    Rule("le(ProductType, TupleEllipsisType)", "pytypes.ProductType", "TupleEllipsisType", 0),
    Rule("le(PythonDataType, SequenceType)", "PythonDataType", "SequenceType", 0),
    Rule("le(OneOf, OneOf)", "OneOf", "OneOf", 0),
    Rule("le(OneOf, PythonType)", "OneOf", "PythonType", 0) >>

EqRules == <<
    RuleAny("eq(self, other)"),
    Rule("eq(SumType, SumType)", "SumType", "SumType", 0),
    Rule("eq(ProductType, ProductType)", "ProductType", "ProductType", 0),
    Rule("eq(GenericType, GenericType)", "GenericType", "GenericType", 0),
    Rule("eq(GenericType, Type)", "GenericType", "Type", 0),
    Rule("eq(PhantomGenericType, PhantomGenericType)",
         "PhantomGenericType", "PhantomGenericType", 0),
    Rule("eq(PythonDataType, PythonDataType)", "PythonDataType", "PythonDataType", 0),
    Rule("eq(OneOf, OneOf)", "OneOf", "OneOf", 0) >>

\* the trees of the dispatch group dp of base_types.py once both modules
\* are imported
LeTree == DefineAll(NewTree, "PythonBasic", LeRules)
EqTree == DefineAll(NewTree, "PythonBasic", EqRules)

\* the rule a call on instances of the classes ca and cb is dispatched to
\* (its id), or the exception the dispatch raises
RuleOf(tree, ca, cb) ==
    LET r == find_function(tree, "PythonBasic", << <<ca>>, <<cb>> >>)
    IN  IF r.status = "ok" THEN r.func.id ELSE r.status

LeRule == [ca \in NodeClasses, cb \in NodeClasses |-> RuleOf(LeTree, ca, cb)]
EqRule == [ca \in NodeClasses, cb \in NodeClasses |-> RuleOf(EqTree, ca, cb)]

(***************************************************************************)
(* Hashing and equality of Type Nodes.  Two nodes with the same encoding   *)
(* are the same object; PyHash is an abstract hash, equal exactly when the *)
(* hashed parts are.                                                       *)
(***************************************************************************)
RECURSIVE PyHash(_)
PyHash(n) ==
    CASE IsA(n, "SumType") -> <<"frozenset", {PyHash(t) : t \in n[2]}>>
      [] IsA(n, "ProductType") -> <<"tuple", [i \in 1..Len(n[2]) |-> PyHash(n[2][i])]>>
      [] IsA(n, "GenericType") -> <<"tuple", <<PyHash(n[2]), PyHash(n[3])>> >>
      [] IsA(n, "PythonDataType") ->
            <<"tuple", << <<"id", <<"type", type(n)>> >>, <<"id", <<"type", n[2]>> >> >> >>
      [] IsA(n, "OneOf") ->
            <<"tuple", << <<"id", <<"type", type(n)>> >>, <<"frozenset", Range(n[2])>> >> >>
      [] OTHER -> <<"id", n>>

RECURSIVE PyEq(_, _)
RECURSIVE DunderEq(_, _)

\* x in a set / dict: the same object, or equal hashes and ==
HashEq(x, y) == x = y \/ (PyHash(x) = PyHash(y) /\ PyEq(x, y))

\* frozenset.__eq__
FrozensetEq(S, T) ==
    /\ Cardinality(S) = Cardinality(T)
    /\ \A x \in S : \E y \in T : HashEq(x, y)

\* tuple.__eq__
TupleEq(s, t) ==
    /\ Len(s) = Len(t)
    /\ \A i \in 1..Len(s) : s[i] = t[i] \/ PyEq(s[i], t[i])

\* the dispatched eq(self, other): "True", "False" or "NotImplemented"
B(b) == IF b THEN "True" ELSE "False"

\* the body of the eq rule the dispatch selected
EqBody(rule, self, other) ==
    CASE rule = "eq(self, other)" -> "NotImplemented"
      [] rule = "eq(SumType, SumType)" -> B(FrozensetEq(self[2], other[2]))
      [] rule = "eq(ProductType, ProductType)" -> B(TupleEq(self[2], other[2]))
      [] rule = "eq(GenericType, GenericType)" ->
            B(PyEq(self[2], other[2]) /\ PyEq(self[3], other[3]))
      [] rule = "eq(GenericType, Type)" ->
            B(self[3] = BaseAll /\ PyEq(self[2], other))
      [] rule = "eq(PhantomGenericType, PhantomGenericType)" ->
            B(PyEq(self[2], other[2]) /\ PyEq(self[3], other[2]))
      [] rule = "eq(PythonDataType, PythonDataType)" -> B(self[2] = other[2])
      [] rule = "eq(OneOf, OneOf)" -> B(self[2] = other[2])
      [] OTHER -> rule

eq(self, other) == EqBody(EqRule[type(self), type(other)], self, other)

\* type(self).__eq__(self, other): PythonDataType defines its own, the
\* other Type classes inherit Type.__eq__ = eq, a host class has object's
DunderEq(self, other) ==
    IF IsA(self, "PythonDataType")
    THEN B(type(other) = type(self) /\ self[2] = other[2])
    ELSE IF IsA(self, "Type") THEN eq(self, other)
    ELSE IF self = other THEN "True" ELSE "NotImplemented"

\* a == b: the reflected __eq__ goes first when type(b) is a proper
\* subclass of type(a); two NotImplemented fall back to identity
RichCompareEq(v, w, r1, r2) ==
    IF r1 # "NotImplemented" THEN r1 = "True"
    ELSE IF r2 # "NotImplemented" THEN r2 = "True"
    ELSE v = w

PyEq(a, b) ==
    LET swap == type(b) # type(a) /\ PyIsSubclass(type(b), type(a))
        v == IF swap THEN b ELSE a
        w == IF swap THEN a ELSE b
    IN  RichCompareEq(v, w, DunderEq(v, w), DunderEq(w, v))

(***************************************************************************)
(* Construction of Sum nodes.  A Python set keeps the first of the         *)
(* elements that are equal (same hash and ==); the order in which a set is *)
(* iterated is not fixed, so a construction that iterates one has a set of *)
(* possible results.                                                       *)
(***************************************************************************)
\* the pairs of the nodes of U that a set takes for the same element
Same(U) == {p \in U \X U : HashEq(p[1], p[2])}

\* set.update, and set.add with ts a single element: same is Same(U) for
\* a U that holds the nodes met
SetUpdate(same, x, ts) == x \cup {t \in ts : ~\E y \in x : <<y, t>> \in same}

\* frozenset(types) of a sequence
RECURSIVE SetOf(_, _)
SetOf(same, types) ==
    IF types = <<>> THEN {}
    ELSE SetUpdate(same, SetOf(same, SubSeq(types, 1, Len(types) - 1)),
                   {types[Len(types)]})

\* the orders in which the set x can be iterated
Orders(x) == {o \in [1..Cardinality(x) -> x] : Range(o) = x}

\* OneOf([v for t in one_ofs for v in t.values])
MergedOneOf(one_ofs) ==
    <<"OneOf", Flatten([k \in 1..Len(one_ofs) |-> one_ofs[k][2]])>>

\* SumType.__init__ of class cls on the sequence types: pytypes.SumType
\* merges the OneOf instances into one when there are several
SumTypeInit(same, cls, types) ==
    LET one_ofs == SelectSeq(types, LAMBDA t : IsA(t, "OneOf"))
        rest == SelectSeq(types, LAMBDA t : ~IsA(t, "OneOf"))
    IN  <<cls, SetOf(same, IF cls = "pytypes.SumType" /\ Len(one_ofs) > 1
                           THEN rest \o <<MergedOneOf(one_ofs)>>
                           ELSE types)>>

\* the nodes a construction from types can meet: the types, the
\* alternatives of those that are Sums, and the OneOf instances merged
Met(types) ==
    LET elems == UNION {IF IsA(t, "SumType") THEN t[2] ELSE {t} : t \in Range(types)}
        one_ofs == {t \in elems : IsA(t, "OneOf")}
    IN  elems \cup {MergedOneOf(o) : o \in UNION {Orders(S) : S \in SUBSET one_ofs}}

\* a construction that hands the collection to the constructor as it is
SumTypeCreatePlain(same, cls, types) == {SumTypeInit(same, cls, types)}

\* the loop of SumType.create: <<"return", t>> at the first top element,
\* <<"x", x>> after the last type
RECURSIVE SumTypeCreateLoop(_, _, _)
SumTypeCreateLoop(same, types, x) ==
    IF types = <<>> THEN <<"x", x>>
    ELSE IF ~IsA(Head(types), "SumType") /\ IsA(Head(types), "AllType")
    THEN <<"return", Head(types)>>
    ELSE SumTypeCreateLoop(same, Tail(types),
            SetUpdate(same, x, IF IsA(Head(types), "SumType") THEN Head(types)[2]
                               ELSE {Head(types)}))

\* the end of SumType.create, r being what the loop left
SumTypeCreateEnd(same, cls, r) ==
    IF r[1] = "return" THEN {r[2]}
    ELSE IF Cardinality(r[2]) = 1 THEN r[2]
    ELSE {SumTypeInit(same, cls, o) : o \in Orders(r[2])}

\* SumType.create(types) called on class cls: the nodes it can return;
\* same is Same(U) for a U that holds the nodes met, as Met(types)
SumType_create(same, cls, types) ==
    SumTypeCreateEnd(same, cls, SumTypeCreateLoop(same, types, {}))

\* self + other: Type.__add__, and AllType.__add__ which returns self
Type_add(same, self, other) ==
    IF IsA(self, "AllType") THEN {self}
    ELSE SumType_create(same, "SumType", <<self, other>>)

(***************************************************************************)
(* The subtype relation.  A comparison ends with True, False or an         *)
(* exception; all() and any() over a frozenset meet its elements in an     *)
(* order that is not fixed, so a comparison has a set of possible          *)
(* outcomes.                                                               *)
(***************************************************************************)
Outcomes == {"True", "False", "DispatchError", "TypeError"}

\* x and y, x or y: y is evaluated only when x does not decide
AndThen(X, Y) == (X \ {"True"}) \cup (IF "True" \in X THEN Y ELSE {})
OrElse(X, Y) == (X \ {"False"}) \cup (IF "False" \in X THEN Y ELSE {})

\* all(...) over a tuple, in order
RECURSIVE AllSeq(_)
AllSeq(outs) ==
    IF outs = <<>> THEN {"True"} ELSE AndThen(Head(outs), AllSeq(Tail(outs)))

\* all(...) and any(...) over a frozenset; outs is the set of the outcome
\* sets of its elements
AllSet(outs) ==
    {o \in Outcomes :
        \/ o = "True" /\ \A r \in outs : "True" \in r
        \/ o # "True" /\ \E r \in outs : o \in r}

AnySet(outs) ==
    {o \in Outcomes :
        \/ o = "False" /\ \A r \in outs : "False" \in r
        \/ o # "False" /\ \E r \in outs : o \in r}

RECURSIVE LeOp(_, _)
RECURSIVE test_instance(_, _)

\* a >= b: ge(a, b) is le(b, a)
GeOp(a, b) == LeOp(b, a)

\* the body of the le rule the dispatch selected; same is the == the rule
\* evaluates, if it does: self.item == other.item in le(GenericType,
\* GenericType), self == other in the other rules
LeBodyWith(rule, self, other, same) ==
    CASE rule = "le(self, other)" -> {"NotImplemented"}
      [] rule = "le(Type, Type)" -> {B(same)}
      [] rule \in {"le(Type, AllType)", "le(type, AllType)",
                   "le(Type, AnyType)", "le(type, AnyType)",
                   "le(AnyType, Type)"} -> {"True"}
      [] rule = "le(SumType, Type)" ->
            AllSet({LeOp(t, other) : t \in self[2]})
      [] rule = "le(Type, SumType)" ->
            AnySet({LeOp(self, t) : t \in other[2]})
      [] rule = "le(ProductType, ProductType)" ->
            IF Len(self[2]) # Len(other[2]) THEN {"False"}
            ELSE AllSeq([i \in 1..Len(self[2]) |-> LeOp(self[2][i], other[2][i])])
      [] rule = "le(GenericType, GenericType)" ->
            AndThen(LeOp(self[2], other[2]),
                    CASE self[4] = Covariant -> LeOp(self[3], other[3])
                      [] self[4] = Contravariant -> GeOp(self[3], other[3])
                      [] self[4] = Invariant -> {B(same)})
      [] rule = "le(GenericType, Type)" -> LeOp(self[2], other)
      [] rule = "le(Type, GenericType)" ->
            AndThen({B(other[3] = BaseAny)}, LeOp(self, other[2]))
      [] rule = "le(Type, PhantomGenericType)" -> LeOp(self, other[3])
      [] rule = "le(PhantomGenericType, Type)" -> LeOp(self[3], other)
      [] rule = "le(PhantomGenericType, PhantomType)" ->
            OrElse(LeOp(self[2], other), LeOp(self[3], other))
      [] rule = "le(Constraint, Constraint)" -> {B(same)}
      [] rule = "le(Constraint, Type)" -> LeOp(self[2], other)
      [] rule = "le(PythonDataType, PythonDataType)" ->
            {B(PyIsSubclass(self[2], other[2]))}
      [] rule = "le(CallableType, CallableType)" ->
            AndThen(GeOp(self[2], other[2]), LeOp(self[3], other[3]))
      [] rule \in {"le(TupleEllipsisType, TupleType)",
                   "le(ProductType, TupleType)"} -> {"True"}
      [] rule = "le(ProductType, TupleEllipsisType)" ->
            AllSeq([i \in 1..Len(self[2]) |-> LeOp(self[2][i], other[3])])
      [] rule = "le(PythonDataType, SequenceType)" ->
            AndThen(LeOp(self, other[2]), LeOp(self, other[3]))
      [] rule = "le(OneOf, OneOf)" -> {B(Range(self[2]) \subseteq Range(other[2]))}
      [] rule = "le(OneOf, PythonType)" ->
            {B(\A v \in Range(self[2]) : test_instance(other, v))}
      [] OTHER -> {rule}

\* the rules with every generic taken for a covariant one
LeBodyCovariant(rule, self, other) ==
    LET generic == rule = "le(GenericType, GenericType)"
        pair == IF generic THEN <<self[3], other[3]>> ELSE <<self, other>>
    IN  LeBodyWith(rule, IF generic THEN [self EXCEPT ![4] = Covariant] ELSE self,
                   other, PyEq(pair[1], pair[2]))

LeBody(rule, self, other) ==
    LET pair == IF rule = "le(GenericType, GenericType)"
                THEN <<self[3], other[3]>> ELSE <<self, other>>
    IN  LeBodyWith(rule, self, other, PyEq(pair[1], pair[2]))

\* the dispatched le(self, other)
le(self, other) == LeBody(LeRule[type(self), type(other)], self, other)

\* a <= b: Type.__le__ = le; NotImplemented from both operands is a
\* TypeError, and two host classes have no __le__ at all
LeOp(a, b) ==
    IF type(a) = "type" /\ type(b) = "type" THEN {"TypeError"}
    ELSE {IF o = "NotImplemented" THEN "TypeError" ELSE o : o \in le(a, b)}

(***************************************************************************)
(* Conformance: Validator.test_instance of each class of pytypes.py.       *)
(***************************************************************************)
isinstance(obj, cls) == PyIsSubclass(type(obj), cls)

\* a Product that checks its elements and not the length of the tuple
TestInstanceZip(self, obj) ==
    IF IsA(self, "pytypes.ProductType")
    THEN /\ isinstance(obj, "tuple")
         /\ \A i \in 1..Len(self[2]) :
               i <= Len(obj[2]) => test_instance(self[2][i], obj[2][i])
    ELSE IsA(self, "AnyType") \/ (IsA(self, "PythonDataType") /\ isinstance(obj, self[2]))

test_instance(self, obj) ==
    CASE IsA(self, "AnyType") \/ IsA(self, "AllType") -> TRUE
      [] IsA(self, "PythonDataType") -> isinstance(obj, self[2])
      [] IsA(self, "TupleType") -> isinstance(obj, "tuple")
      [] IsA(self, "OneOf") -> obj \in Range(self[2])
      [] IsA(self, "pytypes.ProductType") ->
            /\ isinstance(obj, "tuple")
            /\ ~(self[2] # <<>> /\ Len(obj[2]) # Len(self[2]))
            /\ \A i \in 1..Len(self[2]) :
                  i <= Len(obj[2]) => test_instance(self[2][i], obj[2][i])
      [] IsA(self, "pytypes.SumType") ->
            \E t \in self[2] : test_instance(t, obj)
      [] IsA(self, "SequenceType") ->
            /\ test_instance(self[2], obj)
            /\ (self[3] = PyAny
                \/ \A i \in 1..Len(obj[2]) : test_instance(self[3], obj[2][i]))
      [] IsA(self, "Constraint") -> test_instance(self[2], obj) /\ obj \in self[3]
      [] OTHER -> FALSE

(***************************************************************************)
(* Canonicalization of annotations (TypeCaster) and the two entry points   *)
(* PythonTyping hands to the dispatcher.                                   *)
(***************************************************************************)
_type_cast_mapping ==
    [c \in {"list", "tuple", "bool", "NoneType", "int", "str", "float", "object"} |->
        CASE c = "list" -> List
          [] c = "tuple" -> Tuple
          [] c = "bool" -> Bool
          [] c = "NoneType" -> NoneType
          [] c = "int" -> PyInt
          [] c = "str" -> String
          [] c = "float" -> Float
          [] c = "object" -> All]

RECURSIVE to_canon(_)
to_canon(t) ==
    CASE t[1] = "typing.Any" -> PyAny
      [] t[1] = "typing.List" ->
            IF Len(t) = 1 THEN List
            ELSE <<"SequenceType", List[2], to_canon(t[2]), List[4]>>
      [] t[1] = "typing.Union" -> <<"pytypes.SumType", {to_canon(x) : x \in t[2]}>>
      [] t[1] = "type" ->
            IF t[2] \in DOMAIN _type_cast_mapping THEN _type_cast_mapping[t[2]]
            ELSE PythonDataType(t[2])
      [] OTHER -> t

\* ct1 <= ct2; an exception of the comparison leaves is_subtype
is_subtype(t1, t2) == LeOp(to_canon(t1), to_canon(t2)) = {"True"}

is_subtype_raises(t1, t2) ==
    LeOp(to_canon(t1), to_canon(t2)) \cap {"DispatchError", "TypeError"} # {}

\* ensure_isa succeeds
isa(obj, t) == test_instance(to_canon(t), obj)

(***************************************************************************)
(* The program: the module-level multidispatch.  by_module is              *)
(* PythonDispatch.by_module, one MultiDispatch (its fname_to_tree) per     *)
(* module; every MultiDispatch of it runs on PythonTyping.  The            *)
(* environment decorates functions and calls the handles it got back.      *)
(* last records the operation that led to the state: the function          *)
(* decorated or the arguments passed, what the operation returned or       *)
(* raised, whether a call was served from the cache, and the tree as it    *)
(* was before the operation.  rel records a comparison of two Type Nodes   *)
(* by user code: its operands and, once made, its possible outcomes.       *)
(***************************************************************************)
VARIABLES by_module, last, n_funcs, n_calls, rel

vars == <<by_module, last, n_funcs, n_calls, rel>>

typesystem == "PythonTyping"

NoOp ==
    [op |-> "none", module |-> "", fname |-> "", f |-> NoFunc, args |-> <<>>,
     result |-> Raise("none", "none"), hit |-> FALSE, before |-> NewTree]

NoRel == [op |-> "none", a |-> <<>>, b |-> <<>>, out |-> {}]

Init ==
    /\ by_module = <<>>
    /\ last = NoOp
    /\ n_funcs = 0
    /\ n_calls = 0
    /\ rel = NoRel

HasTree(module, fname) ==
    module \in DOMAIN by_module /\ fname \in DOMAIN by_module[module]

\* a registry that keeps one tree per name for all the modules together
TreeOfName(module, fname) ==
    IF \E m \in DOMAIN by_module : fname \in DOMAIN by_module[m]
    THEN by_module[CHOOSE m \in DOMAIN by_module : fname \in DOMAIN by_module[m]][fname]
    ELSE NewTree

TreeOf(module, fname) ==
    IF HasTree(module, fname) THEN by_module[module][fname] ELSE NewTree

\* PythonDispatch.decorate and the MultiDispatch.__call__ it ends with, on
\* a def statement of the module: qualname fname, the given parameters and
\* __dispatch_priority__ (0 for a function that has none).  The function
\* object is new: its id is the rank of the def statement.
decorate(module, fname, priority, params) ==
    /\ n_funcs < MaxFuncs
    /\ \E f \in {[id |-> n_funcs + 1, priority |-> priority, params |-> params]},
          tree \in {TreeOf(module, fname)} :
          \E r \in {define_function(tree, typesystem, f)} :
             /\ by_module' =
                   (module :> ((fname :> r.tree) @@
                               (IF module \in DOMAIN by_module
                                THEN by_module[module] ELSE <<>>)))
                       @@ by_module
             /\ last' = [op |-> "decorate", module |-> module, fname |-> fname,
                         f |-> f, args |-> <<>>,
                         result |-> IF r.error = "none" THEN Ok(f)
                                    ELSE Raise(r.error, "collision"),
                         hit |-> FALSE, before |-> tree]
    /\ n_funcs' = n_funcs + 1
    /\ UNCHANGED <<n_calls, rel>>

\* a call of dispatched_f, the handle of fname in the module: the module has
\* the handle once a decoration of that name has returned
call(module, fname, args) ==
    /\ n_calls < MaxCalls
    /\ HasTree(module, fname)
    /\ by_module[module][fname].leaf # <<>>
    /\ \E tree \in {by_module[module][fname]} :
          \E r \in {find_function_cached(tree, typesystem, args)} :
             /\ by_module' = [by_module EXCEPT ![module][fname] = r.tree]
             /\ last' = [op |-> "call", module |-> module, fname |-> fname,
                         f |-> NoFunc, args |-> args,
                         result |-> r.result, hit |-> r.hit, before |-> tree]
    /\ n_calls' = n_calls + 1
    /\ UNCHANGED <<n_funcs, rel>>

(***************************************************************************)
(* Annotations and values of the environments.                             *)
(***************************************************************************)
int == <<"type", "int">>
str == <<"type", "str">>
list == <<"type", "list">>
typing_Any == <<"typing.Any">>
typing_List == <<"typing.List">>
typing_List_int == <<"typing.List", int>>
typing_List_str == <<"typing.List", str>>

one == <<"int", 1>>
a_str == <<"str", "a">>
list_of(xs) == <<"list", xs>>

(***************************************************************************)
(* Environment 1: one operation of two parameters, each annotated int or   *)
(* typing.Any or left bare, with priority 0 or 1.                          *)
(***************************************************************************)
Params1 == {Param(int, FALSE), Param(typing_Any, FALSE), Unannotated(FALSE)}
Values1 == {one, a_str}

Next ==
    \/ \E p1 \in Params1, p2 \in Params1, priority \in {0, 1} :
          decorate("a", "f", priority, <<p1, p2>>)
    \/ \E v1 \in Values1, v2 \in Values1 : call("a", "f", <<v1, v2>>)

Spec == Init /\ [][Next]_vars

(***************************************************************************)
(* Environment 2: one operation whose first parameter is a list type, bare *)
(* or parameterized, or int, and which may have a second parameter         *)
(* y: int = 0; the calls pass lists of ints, of strs, empty, or an int.    *)
(***************************************************************************)
Params2 == {Param(list, FALSE), Param(typing_List, FALSE),
            Param(typing_List_int, FALSE), Param(typing_List_str, FALSE),
            Param(int, FALSE)}
Defaulted2 == {<<>>, <<Param(int, TRUE)>>}
Values2 == {list_of(<<one>>), list_of(<<a_str>>), list_of(<<>>), one}

NextGenerics ==
    \/ \E p \in Params2, y \in Defaulted2 : decorate("a", "f", 0, <<p>> \o y)
    \/ \E v \in Values2, y \in {<<>>, <<one>>} : call("a", "f", <<v>> \o y)

SpecGenerics == Init /\ [][NextGenerics]_vars

(***************************************************************************)
(* Environment 3: two modules, each defining operations f and g of one     *)
(* parameter, int or str.                                                  *)
(***************************************************************************)
Modules3 == {"a", "b"}
Names3 == {"f", "g"}
Params3 == {Param(int, FALSE), Param(str, FALSE)}
Values3 == {one, a_str}

NextModules ==
    \/ \E m \in Modules3, n \in Names3, p \in Params3 : decorate(m, n, 0, <<p>>)
    \/ \E m \in Modules3, n \in Names3, v \in Values3 : call(m, n, <<v>>)

SpecModules == Init /\ [][NextModules]_vars

(***************************************************************************)
(* Environment 4: user code that compares two Type Nodes.  The nodes are   *)
(* those the constructors of base_types.py and pytypes.py build, nested up *)
(* to MaxDepth: generics and parameterized phantoms wrap any node, the     *)
(* other constructors take atoms, but for one Sum of a parameterized       *)
(* phantom and a data type; a second phantom root comes with the nodes     *)
(* Q[D], P[Q] and P[Q[D]].                                                 *)
(***************************************************************************)
Atoms ==
    {PyAny, All, BaseAny, BaseAll, PyInt, Bool, <<"DataType", 1>>, <<"PhantomType", 1>>}

Flat ==
    {<<"SumType", ab>> : ab \in {x \in SUBSET (Atoms \ {PyAny, All, BaseAny, BaseAll}) :
                                    Cardinality(x) = 2}} \cup
    {<<"ProductType", <<a, b>> >> : a, b \in {PyInt, Bool, <<"DataType", 1>>}} \cup
    {<<"Constraint", a, {}>> : a \in Atoms} \cup
    {<<"SequenceType", PythonDataType("list"), a, Invariant>> : a \in Atoms}

Wrapped(S) ==
    {<<"GenericType", <<"DataType", 1>>, i, v>> :
        i \in S, v \in {Covariant, Contravariant, Invariant}} \cup
    {<<"PhantomGenericType", <<"PhantomType", 1>>, i, 1>> : i \in S}

RECURSIVE NodesUpTo(_)
NodesUpTo(d) ==
    IF d = 0 THEN Atoms
    ELSE IF d = 1 THEN Atoms \cup Flat \cup Wrapped(Atoms)
    ELSE NodesUpTo(d - 1) \cup Wrapped(NodesUpTo(d - 1)) \cup
         {<<"SumType", {<<"PhantomGenericType", <<"PhantomType", 1>>, PyInt, 1>>,
                        <<"DataType", 1>>}>>,
          <<"PhantomType", 2>>,
          <<"PhantomGenericType", <<"PhantomType", 2>>, <<"DataType", 1>>, 1>>,
          <<"PhantomGenericType", <<"PhantomType", 1>>, <<"PhantomType", 2>>, 1>>,
          <<"PhantomGenericType", <<"PhantomType", 1>>,
            <<"PhantomGenericType", <<"PhantomType", 2>>, <<"DataType", 1>>, 1>>, 1>>}

Nodes == NodesUpTo(MaxDepth)

InitTypes ==
    /\ by_module = <<>>
    /\ last = NoOp
    /\ n_funcs = 0
    /\ n_calls = 0
    /\ rel \in {[op |-> "none", a |-> a, b |-> b, out |-> {}] : a, b \in Nodes}

\* a <= b
compare_le ==
    /\ rel.op = "none"
    /\ rel' = [rel EXCEPT !.op = "le", !.out = LeOp(rel.a, rel.b)]
    /\ UNCHANGED <<by_module, last, n_funcs, n_calls>>

\* a == b
compare_eq ==
    /\ rel.op = "none"
    /\ rel' = [rel EXCEPT !.op = "eq", !.out = {B(PyEq(rel.a, rel.b))}]
    /\ UNCHANGED <<by_module, last, n_funcs, n_calls>>

NextTypes ==
    \/ compare_le
    \/ compare_eq

SpecTypes == InitTypes /\ [][NextTypes]_vars

(***************************************************************************)
(* Environment 5: user code that builds Sums: create of either Sum class   *)
(* on up to MaxTypes operands, the + operator over them from left to       *)
(* right, and the canonicalization of a typing.Union annotation.           *)
(***************************************************************************)
MaxTypes == 3

Operands ==
    {<<"DataType", 1>>, <<"DataType", 2>>, PyInt, All, BaseAll, BaseAny,
     <<"PhantomGenericType", <<"PhantomType", 1>>, <<"DataType", 1>>, 1>>,
     <<"GenericType", <<"DataType", 1>>, BaseAll, Covariant>>,
     <<"OneOf", <<one>> >>, <<"OneOf", <<a_str>> >>,
     <<"SumType", {<<"DataType", 2>>, PyInt}>>}

UnionArgs == {int, str, <<"type", "object">>, typing_Any, typing_List_int}

\* t1 + t2 + ... + tn, evaluated from left to right
RECURSIVE AddAll(_, _)
AddAll(same, types) ==
    IF Len(types) = 1 THEN {types[1]}
    ELSE UNION {Type_add(same, s, types[Len(types)]) :
                   s \in AddAll(same, SubSeq(types, 1, Len(types) - 1))}

\* cls.create(types); same is Same(U) for a U that holds the nodes met
create(same, cls, types) ==
    /\ rel.op = "none"
    /\ rel' = [op |-> cls, a |-> types, b |-> <<>>,
               out |-> SumType_create(same, cls, types)]
    /\ UNCHANGED <<by_module, last, n_funcs, n_calls>>

\* types[1] + ... + types[n]
add(same, types) ==
    /\ rel.op = "none"
    /\ rel' = [op |-> "add", a |-> types, b |-> <<>>, out |-> AddAll(same, types)]
    /\ UNCHANGED <<by_module, last, n_funcs, n_calls>>

\* type_caster.to_canon(typing.Union[args])
canonize(args) ==
    /\ rel.op = "none"
    /\ rel' = [op |-> "to_canon", a |-> args, b |-> <<>>,
               out |-> {to_canon(<<"typing.Union", args>>)}]
    /\ UNCHANGED <<by_module, last, n_funcs, n_calls>>

NextAlgebra ==
    \/ \E n \in 0..MaxTypes : \E types \in [1..n -> Operands] :
          \E same \in {Same(Met(types))} :
             \/ \E cls \in {"SumType", "pytypes.SumType"} : create(same, cls, types)
             \/ n >= 2 /\ add(same, types)
    \/ \E args \in SUBSET UnionArgs : Cardinality(args) >= 2 /\ canonize(args)

SpecAlgebra == Init /\ [][NextAlgebra]_vars

(***************************************************************************)
(* Environment 6: user code that compares two Type Nodes or builds a Sum   *)
(* of them with the create of either Sum class.                            *)
(***************************************************************************)
NextSums ==
    \/ compare_le
    \/ /\ rel.op = "none"
       /\ \E cls \in {"SumType", "pytypes.SumType"},
             same \in {Same(Met(<<rel.a, rel.b>>))} : create(same, cls, <<rel.a, rel.b>>)

SpecSums == InitTypes /\ [][NextSums]_vars

(***************************************************************************)
(* Environment 7: user code that tests a value against a Product of up to  *)
(* MaxTypes host types: tuples of up to MaxTypes + 1 elements, and lists.  *)
(***************************************************************************)
\* self.test_instance(obj)
test(self, obj) ==
    /\ rel.op = "none"
    /\ rel' = [op |-> "test_instance", a |-> self, b |-> obj,
               out |-> {B(test_instance(self, obj))}]
    /\ UNCHANGED <<by_module, last, n_funcs, n_calls>>

NextConformance ==
    \E n \in 0..MaxTypes, m \in 0..MaxTypes + 1 :
       \E types \in [1..n -> {PyInt, String, PyAny}], xs \in [1..m -> {one, a_str}] :
          \E obj \in {<<"tuple", xs>>, list_of(xs)} :
             test(<<"pytypes.ProductType", types>>, obj)

SpecConformance == Init /\ [][NextConformance]_vars

(***************************************************************************)
(* Environment 8: one operation whose first parameter is int, str or       *)
(* typing.Any and which may have a second parameter, int or str, with or   *)
(* without a default value.                                                *)
(***************************************************************************)
Params8 == {Param(int, FALSE), Param(str, FALSE), Param(typing_Any, FALSE)}
Second8 == {<<>>, <<Param(int, TRUE)>>, <<Param(int, FALSE)>>, <<Param(str, TRUE)>>}
Values8 == {one, a_str}

NextDefaults ==
    \/ \E p \in Params8, y \in Second8 : decorate("a", "f", 0, <<p>> \o y)
    \/ \E v \in Values8, y \in {<<>>} \cup {<<w>> : w \in Values8} :
          call("a", "f", <<v>> \o y)

SpecDefaults == Init /\ [][NextDefaults]_vars

(***************************************************************************)
(* The contract of the dispatcher, stated on the operation that led to the *)
(* current state.                                                          *)
(***************************************************************************)
IsCall == last.op = "call"
IsDecorate == last.op = "decorate"

\* the signature accepts the arguments: as many types as arguments, each
\* argument an instance of the type at its position
Accepts(signature, args) ==
    /\ Len(signature) = Len(args)
    /\ \A i \in 1..Len(args) : TsIsinstance(typesystem, args[i], signature[i])

\* the registered (f, signature) pairs of the tree whose signature accepts
Candidates(tree, args) ==
    {tree.leaf[p] : p \in {q \in DOMAIN tree.leaf : Accepts(q, args)}}

Subtype(t1, t2) == TsIssubclass(typesystem, t1, t2)
StrictSubtype(t1, t2) == Subtype(t1, t2) /\ ~Subtype(t2, t1)

\* d is at least as specific as c at every position, and strictly more at one
MoreSpecific(d, c) ==
    /\ \A i \in 1..Len(d.sig) : Subtype(d.sig[i], c.sig[i])
    /\ \E i \in 1..Len(d.sig) : StrictSubtype(d.sig[i], c.sig[i])

\* C1 (Specificity): a call that the resolver serves (one not answered from
\* the cache) and for which one accepting candidate d is more specific than
\* every other accepting candidate resolves to d's implementation, whatever
\* the registration order and the priorities.
C1_Specificity ==
    (IsCall /\ ~last.hit) =>
        \A d \in Candidates(last.before, last.args) :
            (\A c \in Candidates(last.before, last.args) \ {d} : MoreSpecific(d, c))
                => last.result = Ok(d.f)

\* what the specificity comparison makes of the candidates funcs the trie
\* walk of a call collected, given the winners per_param of their columns
SingledOut(funcs, per_param) ==
    {i \in 1..Len(funcs) : \A k \in 1..Len(per_param) : i \in per_param[k]}
Remaining(per_param) == UNION Range(per_param)
Highest(funcs, remaining) ==
    {i \in remaining :
        \A j \in remaining \ {i} : funcs[i].f.priority > funcs[j].f.priority}
Decides(funcs, per_param) == Cardinality(SingledOut(funcs, per_param)) = 1

C3_DispatchExactness ==
    IsCall =>
        /\ Candidates(last.before, last.args) = {}
              => last.result.status = "DispatchError"
        /\ \A d \in Candidates(last.before, last.args) :
              Candidates(last.before, last.args) = {d} => last.result = Ok(d.f)

\* the Type Nodes of two signatures are equal, position by position
SameNodes(sig1, sig2) ==
    /\ Len(sig1) = Len(sig2)
    /\ \A i \in 1..Len(sig1) : PyEq(to_canon(sig1[i]), to_canon(sig2[i]))

\* C4 (Duplicate registration): decorating a function one of whose
\* signatures has the same Type Nodes as a signature already registered
\* under the name raises ValueError, and the leaf of that signature keeps
\* the implementation registered first.
C4_DuplicateRegistration ==
    IsDecorate =>
        \A p \in DOMAIN last.before.leaf :
            (\E sig \in Range(get_func_signatures(typesystem, last.f)) :
                SameNodes(sig, p))
            => /\ last.result.status = "ValueError"
               /\ TreeOf(last.module, last.fname).leaf[p] = last.before.leaf[p]

\* C5 (Cache idempotence): a call whose kinds are in the cache is served
\* from it, without a walk of the trie, and returns the very reference
\* cached; a call that resolves to f leaves its kinds cached as f; and a
\* call leaves every other entry of the cache as it was.  So a next call
\* with the same kinds, no registration in between, returns the identical
\* f from the cache.
C5_CacheIdempotence ==
    IsCall =>
        LET key == CacheKey(typesystem, last.args)
            before == last.before.cache
            after == TreeOf(last.module, last.fname).cache
        IN  /\ key \in DOMAIN before
                 => last.hit /\ last.result = Ok(before[key])
            /\ last.result.status = "ok"
                 => key \in DOMAIN after /\ after[key] = last.result.func
            /\ \A k \in DOMAIN before : k \in DOMAIN after /\ after[k] = before[k]

\* a call that an earlier call of the same kinds resolved, served from the
\* cache
C5_Witness ==
    /\ IsCall /\ last.hit /\ last.result.status = "ok"
    /\ CacheKey(typesystem, last.args) \in DOMAIN last.before.cache

\* C6 (Determinism): the outcome of a call (the implementation it selects
\* or the error it raises) is the one the registrations made so far give
\* to its arguments, whichever calls were made before it.
C6_Determinism ==
    IsCall =>
        last.result = find_function([last.before EXCEPT !.cache = <<>>],
                                    typesystem, last.args)

\* the declared type of each parameter of f, and its arity family
DeclaredTypes(f) ==
    [i \in 1..Len(f.params) |->
        IF f.params[i].annotated THEN f.params[i].annotation
        ELSE TsDefaultType(typesystem)]
Defaults(f) == Cardinality({i \in 1..Len(f.params) : f.params[i].has_default})
Family(f) ==
    {SubSeq(DeclaredTypes(f), 1, m) :
        m \in (Len(f.params) - Defaults(f))..Len(f.params)}
RegisteredOf(tree, f) == {p \in DOMAIN tree.leaf : tree.leaf[p].f = f}
Registered(tree) == {tree.leaf[p].f : p \in DOMAIN tree.leaf}

\* C7 (Arity family): a decoration that succeeds registers the function
\* under its full signature and under each prefix that stops before a
\* defaulted parameter, k + 1 signatures for k defaults; and a call with m
\* arguments, n - k <= m <= n, each accepted by the declared type at its
\* position, resolves to the function when no signature of another
\* function accepts the arguments.
C7_ArityFamily ==
    /\ (IsDecorate /\ last.result.status = "ok") =>
          /\ RegisteredOf(TreeOf(last.module, last.fname), last.f) = Family(last.f)
          /\ Cardinality(Family(last.f)) = Defaults(last.f) + 1
    /\ IsCall =>
          \A g \in Registered(last.before) :
              ( /\ RegisteredOf(last.before, g) = Family(g)
                /\ Len(last.args) >= Len(g.params) - Defaults(g)
                /\ Len(last.args) <= Len(g.params)
                /\ Accepts(SubSeq(DeclaredTypes(g), 1, Len(last.args)), last.args)
                /\ \A c \in Candidates(last.before, last.args) : c.f = g )
              => last.result = Ok(g)

\* the positions f leaves without an annotation
Bare(f) == {i \in 1..Len(f.params) : ~f.params[i].annotated}

\* C8 (Unannotated parameters): a parameter without an annotation is
\* registered as the top element, which accepts every value; and a call
\* selects an implementation with such a parameter at a position only when
\* no candidate accepting the arguments has a strictly more specific type
\* at that position.
C8_Unannotated ==
    /\ (IsDecorate /\ last.result.status = "ok") =>
          \A p \in RegisteredOf(TreeOf(last.module, last.fname), last.f) :
              \A i \in Bare(last.f) \cap (1..Len(p)) :
                  /\ to_canon(p[i]) = All
                  /\ \A v \in Values1 : TsIsinstance(typesystem, v, p[i])
    /\ (IsCall /\ last.result.status = "ok") =>
          \A i \in Bare(last.result.func) \cap (1..Len(last.args)) :
              \A c \in Candidates(last.before, last.args) :
                  ~StrictSubtype(c.sig[i], DeclaredTypes(last.result.func)[i])

\* C9 (Tree isolation): a decoration or a call on an operation leaves the
\* tree (nodes, edges, leaves, cache) of every other name of the module
\* and of every name of every other module as it was, or absent; and a
\* decoration raises ValueError exactly when the signature is already
\* registered under the same name in the same module, whatever the other
\* names and modules hold.
C9_TreeIsolation ==
    [][ /\ \A m \in Modules3, n \in Names3 :
              (m # last'.module \/ n # last'.fname) =>
                  /\ (m \in DOMAIN by_module' /\ n \in DOMAIN by_module'[m])
                        <=> (m \in DOMAIN by_module /\ n \in DOMAIN by_module[m])
                  /\ (m \in DOMAIN by_module /\ n \in DOMAIN by_module[m])
                        => by_module'[m][n] = by_module[m][n]
        /\ last'.op = "decorate" =>
              (last'.result.status = "ValueError"
                  <=> /\ last'.module \in DOMAIN by_module
                      /\ last'.fname \in DOMAIN by_module[last'.module]
                      /\ DeclaredTypes(last'.f) \in
                            DOMAIN by_module[last'.module][last'.fname].leaf)
      ]_vars

\* a signature registered without a conflict while another name or another
\* module holds the same signature, and some tree has cached a call
C9_Witness ==
    /\ IsDecorate /\ last.result.status = "ok"
    /\ \E m \in DOMAIN by_module : \E n \in DOMAIN by_module[m] :
          /\ (m # last.module \/ n # last.fname)
          /\ DeclaredTypes(last.f) \in DOMAIN by_module[m][n].leaf
          /\ by_module[m][n].cache # <<>>

\* C10 (Reflexivity): for every Type Node T, T <= T evaluates to true.
C10_Reflexivity ==
    (rel.op = "le" /\ rel.a = rel.b) => rel.out = {"True"}

\* C11 (Absorption): T <= top evaluates to true for every Type Node T, and
\* Sum.create of a collection that contains the top element returns a top
\* element of the collection, whatever else the collection holds.
C11_Absorption ==
    /\ (rel.op = "le" /\ rel.b \in {All, BaseAll}) => rel.out = {"True"}
    /\ (rel.op \in {"SumType", "pytypes.SumType"} /\ Range(rel.a) \cap {All, BaseAll} # {})
          => rel.out \subseteq (Range(rel.a) \cap {All, BaseAll})

\* a Sum created from the top element and a Generic node
C11_Witness ==
    /\ rel.op = "pytypes.SumType"
    /\ Len(rel.a) = 2 /\ type(rel.a[1]) = "GenericType" /\ rel.a[2] = All
    /\ rel.out = {All}

\* C12 (Wildcard): for every Type Node T, the wildcard <= T and
\* T <= the wildcard both evaluate to true: the comparison neither returns
\* false nor raises.
C12_Wildcard ==
    (rel.op = "le" /\ {rel.a, rel.b} \cap {PyAny, BaseAny} # {}) => rel.out = {"True"}

\* C13 (Sum canonicalization): the node Sum.create and + return has no Sum
\* among its alternatives, no two alternatives that are equal, and is the
\* bare alternative rather than a Sum of one; built from copies of one
\* operand it equals the operand; and it equals the node built from the
\* same operands in another order (create of a permutation, B + A) or
\* another grouping (A + (B + C)).
C13_SumCanonical ==
    /\ rel.op \in {"SumType", "pytypes.SumType", "add"} =>
          /\ \A r \in rel.out : IsA(r, "SumType") =>
                /\ \A x \in r[2] : ~IsA(x, "SumType")
                /\ \A x, y \in r[2] : x # y => ~PyEq(x, y)
                /\ Cardinality(r[2]) # 1
          /\ Cardinality(Range(rel.a)) = 1 => \A r \in rel.out : PyEq(r, rel.a[1])
    /\ rel.op \in {"SumType", "pytypes.SumType"} =>
          \A p \in {q \in [1..Len(rel.a) -> 1..Len(rel.a)] : Range(q) = 1..Len(rel.a)} :
             \A r \in rel.out,
                r2 \in SumType_create(Same(Met(rel.a)), rel.op,
                                      [i \in 1..Len(rel.a) |-> rel.a[p[i]]]) :
                PyEq(r, r2)
    /\ (rel.op = "add" /\ Len(rel.a) = 2) =>
          \A r \in rel.out, r2 \in Type_add(Same(Met(rel.a)), rel.a[2], rel.a[1]) :
             PyEq(r, r2)
    /\ (rel.op = "add" /\ Len(rel.a) = 3) =>
          \A same \in {Same(Met(rel.a))} :
             \A r \in rel.out, bc \in Type_add(same, rel.a[2], rel.a[3]) :
                \A r2 \in Type_add(same, rel.a[1], bc) : PyEq(r, r2)

C15_SumSubtyping ==
    rel.op = "le" =>
       /\ (IsA(rel.a, "SumType") /\ ~IsA(rel.b, "AllType") /\ ~IsA(rel.b, "AnyType")) =>
             (rel.out = {"True"} <=> \A t \in rel.a[2] : LeOp(t, rel.b) = {"True"})
       /\ (~IsA(rel.a, "SumType") /\ IsA(rel.b, "SumType")) =>
             (rel.out = {"True"} <=> \E t \in rel.b[2] : LeOp(rel.a, t) = {"True"})

\* C16 (Phantom transparency): for a phantom root P and a type x other
\* than P, P[x] <= P, P[x] <= x and x <= P[x] are true and P <= P[x] is
\* not; two distinct phantom roots are not <= one another; and a nested
\* P[Q[x]] is <= each of P, Q, x, P[Q], P[x], Q[x] and itself.
C16_PhantomTransparency ==
    rel.op = "le" =>
       /\ (IsA(rel.a, "PhantomGenericType") /\ rel.b \in {rel.a[2], rel.a[3]})
             => rel.out = {"True"}
       /\ (IsA(rel.b, "PhantomGenericType") /\ rel.a = rel.b[3]) => rel.out = {"True"}
       /\ (IsA(rel.a, "PhantomType") /\ IsA(rel.b, "PhantomGenericType")
             /\ rel.b[2] = rel.a /\ rel.b[3] # rel.a) => "True" \notin rel.out
       /\ (IsA(rel.a, "PhantomType") /\ IsA(rel.b, "PhantomType") /\ rel.a # rel.b)
             => "True" \notin rel.out
       /\ (IsA(rel.a, "PhantomGenericType") /\ IsA(rel.a[3], "PhantomGenericType")
             /\ rel.b \in {rel.a[2], rel.a[3][2], rel.a[3][3], rel.a[3], rel.a,
                           <<"PhantomGenericType", rel.a[2], rel.a[3][2], 1>>,
                           <<"PhantomGenericType", rel.a[2], rel.a[3][3], 1>>})
             => rel.out = {"True"}

\* C17 (Constraint subtyping): a Constraint C over the base B is <= T
\* exactly when T is C or B <= T; and T <= C is false for every T other
\* than C and the wildcard.
C17_ConstraintSubtyping ==
    rel.op = "le" =>
       /\ IsA(rel.a, "Constraint") =>
             (rel.out = {"True"} <=> (rel.b = rel.a \/ LeOp(rel.a[2], rel.b) = {"True"}))
       /\ (IsA(rel.b, "Constraint") /\ rel.a # rel.b /\ ~IsA(rel.a, "AnyType"))
             => rel.out = {"False"}

\* C18 (Equality agrees with hashing): two Type Nodes that compare equal
\* with == have the same hash.
C18_EqualityHash ==
    (rel.op = "eq" /\ rel.out = {"True"}) => PyHash(rel.a) = PyHash(rel.b)

\* C19 (Product conformance): a Product of n >= 1 types accepts a value
\* exactly when the value is a tuple of n elements, each accepted by the
\* type at its position; a Product of no types accepts every tuple.
C19_ProductConformance ==
    (rel.op = "test_instance" /\ IsA(rel.a, "pytypes.ProductType")) =>
       (rel.out = {"True"} <=>
           /\ isinstance(rel.b, "tuple")
           /\ \/ Len(rel.a[2]) = 0
              \/ /\ Len(rel.b[2]) = Len(rel.a[2])
                 /\ \A i \in 1..Len(rel.a[2]) : test_instance(rel.a[2][i], rel.b[2][i]))

\* the Product of no types accepts a tuple of one element
C19_Witness ==
    /\ rel.op = "test_instance"
    /\ rel.a = <<"pytypes.ProductType", <<>> >>
    /\ rel.b = <<"tuple", <<one>> >>
    /\ rel.out = {"True"}

\* C19 as stated: a Product of n types, for every n >= 0, accepts a value
\* exactly when the value is a tuple of n elements, each accepted by the
\* type at its position.
C19_ExactArity ==
    (rel.op = "test_instance" /\ IsA(rel.a, "pytypes.ProductType")) =>
       (rel.out = {"True"} <=>
           /\ isinstance(rel.b, "tuple")
           /\ Len(rel.b[2]) = Len(rel.a[2])
           /\ \A i \in 1..Len(rel.a[2]) : test_instance(rel.a[2][i], rel.b[2][i]))

\* C20 (Sum node invariant): every Sum node that Sum.create, + or the
\* canonicalization of a union annotation returns has at least two
\* alternatives that are not equal, and no alternative that is the top
\* element or a Sum.
C20_SumInvariant ==
    rel.op \in {"SumType", "pytypes.SumType", "add", "to_canon"} =>
       \A r \in rel.out : IsA(r, "SumType") =>
          /\ \E x, y \in r[2] : x # y /\ ~PyEq(x, y)
          /\ \A x \in r[2] : ~IsA(x, "AllType") /\ ~IsA(x, "SumType")

\* C21 (Append-only trie): a step changes the trie of a tree only by adding
\* to it: every node and edge of the tree stays, in its place in the order
\* of creation, and every leaf keeps its implementation and signature; and
\* a call, whether it resolves, finds no match or is ambiguous, leaves the
\* nodes, edges and leaves of its tree as they were.
C21_AppendOnly ==
    [][ /\ \A m \in DOMAIN by_module : \A n \in DOMAIN by_module[m] :
              /\ m \in DOMAIN by_module' /\ n \in DOMAIN by_module'[m]
              /\ IsPrefix(by_module[m][n].order, by_module'[m][n].order)
              /\ \A p \in DOMAIN by_module[m][n].leaf :
                    /\ p \in DOMAIN by_module'[m][n].leaf
                    /\ by_module'[m][n].leaf[p] = by_module[m][n].leaf[p]
        /\ last'.op = "call" =>
              /\ DOMAIN by_module' = DOMAIN by_module
              /\ \A m \in DOMAIN by_module :
                    /\ DOMAIN by_module'[m] = DOMAIN by_module[m]
                    /\ \A n \in DOMAIN by_module[m] :
                          /\ by_module'[m][n].order = by_module[m][n].order
                          /\ by_module'[m][n].leaf = by_module[m][n].leaf
      ]_vars

\* a registration on a tree that holds leaves and cached calls, refused for
\* a collision after it had added a leaf
C21_Witness ==
    /\ IsDecorate /\ last.result.status = "ValueError"
    /\ last.before.leaf # <<>> /\ last.before.cache # <<>>
    /\ DOMAIN TreeOf(last.module, last.fname).leaf # DOMAIN last.before.leaf

\* C22 (Cache monotonicity): the cache of a tree is empty when the tree is
\* created and from then on only grows: every step keeps every key of the
\* cache mapped to the implementation it was mapped to, whether the step
\* is a call or a registration, also a registration that adds a more
\* specific or an ambiguous candidate for the key.
C22_CacheMonotone ==
    [][ /\ \A m \in DOMAIN by_module : \A n \in DOMAIN by_module[m] :
              /\ m \in DOMAIN by_module' /\ n \in DOMAIN by_module'[m]
              /\ \A k \in DOMAIN by_module[m][n].cache :
                    /\ k \in DOMAIN by_module'[m][n].cache
                    /\ by_module'[m][n].cache[k] = by_module[m][n].cache[k]
        /\ \A m \in DOMAIN by_module' : \A n \in DOMAIN by_module'[m] :
              ~(m \in DOMAIN by_module /\ n \in DOMAIN by_module[m])
                 => by_module'[m][n].cache = <<>>
      ]_vars

\* a registration after which a cached entry is no longer what a walk of
\* the trie gives to arguments of its kinds
C22_Witness ==
    /\ IsDecorate /\ last.result.status = "ok"
    /\ \E v \in Values2 :
          \E tree \in {TreeOf(last.module, last.fname)} :
             /\ CacheKey(typesystem, <<v>>) \in DOMAIN last.before.cache
             /\ CacheKey(typesystem, <<v>>) \in DOMAIN tree.cache
             /\ find_function(tree, typesystem, <<v>>)
                   # Ok(tree.cache[CacheKey(typesystem, <<v>>)])

\* C23 (Column winning set): when the trie walk of a call collects two or
\* more candidates, the winning set of every column whose types are not
\* all equal is exactly the set of the candidates whose type at the column
\* has no strict subtype among the types of the other candidates there:
\* candidates with equal or mutually incomparable types win together, and
\* a candidate with a strict supertype of another's type does not win.
C23_ColumnWinners ==
    (IsCall /\ ~last.hit) =>
        \A funcs \in {MatchingFuncs(last.before, typesystem, last.args)} :
            Len(funcs) >= 2 =>
                \A c \in 1..Len(funcs[1].sig) :
                    \A col \in {[i \in 1..Len(funcs) |-> funcs[i].sig[c]]} :
                        ~all_eq(col) =>
                            MostSpecificSet(typesystem, col)
                               = {i \in 1..Len(col) :
                                    ~\E j \in 1..Len(col) : StrictSubtype(col[j], col[i])}

\* C24 (Candidate collection): the candidates that the trie walk of a call
\* not served from the cache collects are exactly the registered leaves
\* whose signature has as many types as the call has arguments and whose
\* type at every position accepts the argument there, each collected
\* once; an edge is followed when its type accepts the argument, so an
\* integer follows the edge of int and the edge of the top element alike.
C24_CandidateCollection ==
    (IsCall /\ ~last.hit) =>
        \A funcs \in {MatchingFuncs(last.before, typesystem, last.args)} :
            /\ Range(funcs) = Candidates(last.before, last.args)
            /\ Len(funcs) = Cardinality(Candidates(last.before, last.args))

\* a walk whose first argument is an integer that collects a leaf behind
\* the edge of int and a leaf behind the edge of the top element, and
\* leaves out a third leaf
C24_Witness ==
    /\ IsCall /\ ~last.hit /\ last.args = <<one, a_str>>
    /\ \E funcs \in {MatchingFuncs(last.before, typesystem, last.args)} :
          /\ \E i \in 1..Len(funcs) : funcs[i].sig[1] = int
          /\ \E i \in 1..Len(funcs) : funcs[i].sig[1] = TsDefaultType(typesystem)
          /\ Len(funcs) < Cardinality(DOMAIN last.before.leaf)

\* C25 (Soundness of the resolved implementation): whenever a call
\* resolves, from the cache or by a walk of the trie, the implementation
\* it returns is registered in the tree under a signature that has as many
\* types as the call has arguments and whose type at every position
\* accepts the argument value there.
C25_Soundness ==
    (IsCall /\ last.result.status = "ok") =>
        \E d \in Candidates(last.before, last.args) : d.f = last.result.func

\* C26 (Atomic registration failure): a decoration that raises ValueError
\* leaves the tree of its name as the decoration found it (nodes, edges,
\* leaves and cache): no signature of the rejected function's arity family
\* stays registered; and a call never resolves to a function of whose
\* family a signature was refused.
C26_AtomicRegistration ==
    /\ (IsDecorate /\ last.result.status = "ValueError") =>
          /\ TreeOf(last.module, last.fname) = last.before
          /\ RegisteredOf(TreeOf(last.module, last.fname), last.f) = {}
    /\ (IsCall /\ last.result.status = "ok") =>
          RegisteredOf(last.before, last.result.func) = Family(last.result.func)

\* C27 (Failed dispatch leaves the cache unchanged): a call that raises
\* DispatchError leaves the cache of its tree as it was; the same call made
\* again right after it raises the same error; and a call that raises on
\* the tree as a registration found it, made right after that
\* registration, is not served from the cache, and when it found no match
\* before and resolves now it resolves to the implementation just
\* registered.
C27_FailedDispatch ==
    [][ last'.op = "call" =>
          /\ last'.result.status = "DispatchError" => by_module' = by_module
          /\ ( /\ IsCall /\ last.result.status = "DispatchError"
               /\ last'.module = last.module /\ last'.fname = last.fname
               /\ last'.args = last.args )
                => last'.result = last.result
          /\ ( /\ IsDecorate
               /\ last'.module = last.module /\ last'.fname = last.fname )
                => \A r \in {find_function_cached(last.before, typesystem,
                                                   last'.args).result} :
                      r.status = "DispatchError" =>
                         /\ ~last'.hit
                         /\ (r.reason = "not found" /\ last'.result.status = "ok")
                               => last'.result = Ok(last.f)
      ]_vars

\* a call that follows a call that raised (the cache is still empty) and
\* resolves to the implementation registered last, without whose leaves it
\* finds no match
C27_Witness ==
    /\ IsCall /\ last.result.status = "ok" /\ ~last.hit
    /\ n_calls = 2 /\ last.before.cache = <<>>
    /\ last.result.func.id = n_funcs
    /\ find_function([last.before EXCEPT !.leaf =
                         [q \in {p \in DOMAIN @ : @[p].f # last.result.func}
                             |-> @[q]]],
                     typesystem, last.args)
          = Raise("DispatchError", "not found")

\* C27 as stated: a call that raises DispatchError on the tree as a
\* registration found it and resolves right after that registration
\* resolves to the implementation just registered.
C27_ResolvesToNew ==
    [][ ( /\ IsDecorate /\ last'.op = "call"
          /\ last'.module = last.module /\ last'.fname = last.fname
          /\ find_function_cached(last.before, typesystem,
                                  last'.args).result.status = "DispatchError"
          /\ last'.result.status = "ok" )
           => last'.result = Ok(last.f)
      ]_vars

\* C28 (Registration-order independence): a call made on an empty cache
\* ends as the same call ends on the tree that any other order of the same
\* registrations builds: the same implementation returned, or the same
\* error raised.
C28_OrderIndependence ==
    (IsCall /\ last.before.cache = <<>>) =>
        \A fs \in Orders(Registered(last.before)) :
            find_function(DefineAll(NewTree, typesystem, fs), typesystem, last.args)
               = last.result

\* the Type Nodes built without the wildcard and without Phantom wrappers
RECURSIVE Plain(_)
Plain(n) ==
    CASE n \in {PyAny, BaseAny} -> FALSE
      [] type(n) \in {"PhantomType", "PhantomGenericType"} -> FALSE
      [] IsA(n, "SumType") -> \A t \in n[2] : Plain(t)
      [] IsA(n, "ProductType") -> \A i \in 1..Len(n[2]) : Plain(n[2][i])
      [] IsA(n, "GenericType") -> Plain(n[2]) /\ Plain(n[3])
      [] IsA(n, "Constraint") -> Plain(n[2])
      [] OTHER -> TRUE

\* C29 (Transitivity): for Type Nodes a, b, c built without the wildcard
\* and without Phantom wrappers (atomic types, Sums, Products, Constraints,
\* generics of every variance), a <= b and b <= c imply a <= c.
C29_Transitivity ==
    (rel.op = "le" /\ rel.out = {"True"} /\ Plain(rel.a) /\ Plain(rel.b)) =>
        \A c \in {n \in NodesUpTo(1) : Plain(n)} :
            LeOp(rel.b, c) = {"True"} => LeOp(rel.a, c) = {"True"}

====
